---- MODULE Spec2Model ----
(***************************************************************************)
(* Model of xqemu-manager (src/main.py): the SettingsManager (settings     *)
(* dictionary and its JSON file), the Xqemu process controller (path       *)
(* checks, command line, Popen handle) and the MainWindow handlers.        *)
(*                                                                         *)
(* A Python string is a sequence of chunks: a chunk is either SP (one      *)
(* whitespace character) or a run of non-whitespace characters.            *)
(***************************************************************************)
EXTENDS Naturals, Sequences, FiniteSets

VARIABLES
    settings,   \* SettingsManager.settings
    file,       \* the file at SETTINGS_FILE: [exists, doc]
    _p,         \* Xqemu._p: None or the pid of the retained Popen object
    procs,      \* the processes spawned so far, by pid: "running" | "terminated"
    runButton,  \* MainWindow.runButton text
    dialog,     \* TRUE while SettingsWindow.exec_() runs its modal loop
    app,        \* "running" | "exited" | "crashed"
    edits,      \* number of widget edits made so far
    started,    \* history: a start has succeeded and no stop was called since
    rt,         \* history: progress through reset(); save(); load()
    last,       \* history: the most recent call and the state it was made in
    out         \* history: how that call ended

vars ==
    <<settings, file, _p, procs, runButton, dialog, app, edits, started, rt, last, out>>

----------------------------------------------------------------------------
(* Bounds *)

\* Popen calls explored per run.
MaxSpawns == 2

\* Widget edits explored per run (store and main-window specifications).
MaxEdits == 2

----------------------------------------------------------------------------
(* Strings, paths and the file system *)

SP == " "

\* An existing regular file.
F == <<"/opt/xqemu/image">>
\* An existing regular file whose name contains whitespace.
W == <<"/opt/my", SP, "xbox/image">>
\* An existing directory.
D == <<"/opt/xqemu">>

\* os.path.exists / os.path.isdir on the modelled file system.
FileKind(path) ==
    IF path \in {F, W} THEN "file"
    ELSE IF path = D THEN "dir"
    ELSE "none"

PathKeys == {"xqemu_path", "mcpx_path", "flash_path", "hdd_path", "dvd_path"}
FlagKeys == {"hdd_locked", "dvd_present", "short_anim"}

\* Insertion order of the dictionary literal in reset().
Keys ==
    <<"xqemu_path", "mcpx_path", "flash_path", "hdd_path",
      "hdd_locked", "dvd_present", "dvd_path", "short_anim">>

Defaults ==
    [ xqemu_path  |-> <<"/path/to/xqemu">>,
      mcpx_path   |-> <<"/path/to/mcpx.bin">>,
      flash_path  |-> <<"/path/to/flash.bin">>,
      hdd_path    |-> <<"/path/to/hdd.img">>,
      hdd_locked  |-> TRUE,
      dvd_present |-> TRUE,
      dvd_path    |-> <<"/path/to/disc.iso">>,
      short_anim  |-> FALSE ]

\* Values a widget can put into a field.
Values(k) == IF k \in FlagKeys THEN BOOLEAN ELSE {Defaults[k], F, W, D}

Configurations ==
    [ xqemu_path  : Values("xqemu_path"),
      mcpx_path   : Values("mcpx_path"),
      flash_path  : Values("flash_path"),
      hdd_path    : Values("hdd_path"),
      hdd_locked  : BOOLEAN,
      dvd_present : BOOLEAN,
      dvd_path    : Values("dvd_path"),
      short_anim  : BOOLEAN ]

----------------------------------------------------------------------------
(* JSON *)

\* json.dumps of one value: a str becomes a quoted string, a bool a literal.
JsonEncodeValue(k, v) ==
    IF k \in FlagKeys
    THEN [key |-> k, tag |-> "lit", text |-> <<IF v THEN "true" ELSE "false">>]
    ELSE [key |-> k, tag |-> "str", text |-> v]

\* json.dumps(self.settings, indent=2): one member per key, in dictionary order.
JsonDumps(s) == [i \in 1..Len(Keys) |-> JsonEncodeValue(Keys[i], s[Keys[i]])]

JsonValid(doc) ==
    /\ Len(doc) > 0
    /\ \A i \in 1..Len(doc) :
          \/ doc[i].tag = "str"
          \/ doc[i].tag = "lit" /\ doc[i].text \in {<<"true">>, <<"false">>}

JsonDecodeValue_Inverted(m) ==
    IF m.tag = "lit" THEN m.text = <<"false">> ELSE m.text

\* json.loads of one member's value.
JsonDecodeValue(m) ==
    IF m.tag = "lit" THEN m.text = <<"true">> ELSE m.text

\* json.loads(d): a dictionary holding exactly the members of the document.
JsonLoads(doc) ==
    [k \in {doc[i].key : i \in 1..Len(doc)} |->
        JsonDecodeValue(doc[CHOOSE i \in 1..Len(doc) :
                                /\ doc[i].key = k
                                /\ \A j \in (i+1)..Len(doc) : doc[j].key # k])]

Absent == [exists |-> FALSE, doc |-> <<>>]
Present(doc) == [exists |-> TRUE, doc |-> doc]

\* A settings file that is not JSON.
Malformed == <<[key |-> "{", tag |-> "bad", text |-> <<>>]>>

----------------------------------------------------------------------------
(* History records *)

Call(op) ==
    [ op       |-> op,
      before   |-> _p,
      nprocs   |-> Len(procs),
      existed  |-> file.exists,
      defaults |-> settings = Defaults ]

Outcome(result, path, argv) == [result |-> result, path |-> path, argv |-> argv]

Returned == Outcome("ok", <<>>, <<>>)

----------------------------------------------------------------------------
(* SettingsManager *)

\* SettingsManager.reset
reset ==
    /\ settings' = Defaults
    /\ out' = Returned
    /\ UNCHANGED file

\* SettingsManager.save: open(SETTINGS_FILE, 'w') either fails, leaving the
\* file as it was, or the document replaces the file's content.
save ==
    \/ /\ file' = Present(JsonDumps(settings))
       /\ out' = Returned
       /\ UNCHANGED settings
    \/ /\ out' = Outcome("io_error", <<>>, <<>>)
       /\ UNCHANGED <<settings, file>>

load_KeepsRecord ==
    /\ UNCHANGED file
    /\ IF file.exists
       THEN IF JsonValid(file.doc)
            THEN settings' = JsonLoads(file.doc) /\ out' = Returned
            ELSE UNCHANGED settings /\ out' = Outcome("parse_error", <<>>, <<>>)
       ELSE UNCHANGED settings /\ out' = Returned

\* SettingsManager.load
load ==
    /\ UNCHANGED file
    /\ IF file.exists
       THEN IF JsonValid(file.doc)
            THEN settings' = JsonLoads(file.doc) /\ out' = Returned
            ELSE UNCHANGED settings /\ out' = Outcome("parse_error", <<>>, <<>>)
       ELSE settings' = Defaults /\ out' = Returned

\* SettingsWindow.setTextAttr / setCheckAttr: a widget writes its value to a field.
setAttr(k, v) == settings' = [settings EXCEPT ![k] = v]

----------------------------------------------------------------------------
(* Xqemu *)

None == 0

\* Xqemu.isRunning
isRunning == _p # None

check_path_ExistsOnly(path) == FileKind(path) # "none"

\* check_path returns normally (TRUE) or raises (FALSE).
check_path(path) == ~(FileKind(path) = "none" \/ FileKind(path) = "dir")

CheckOrder_AlwaysDvd(s) ==
    <<"xqemu_path", "mcpx_path", "flash_path", "hdd_path", "dvd_path">>

CheckOrder_HddFirst(s) ==
    <<"hdd_path", "xqemu_path", "mcpx_path", "flash_path">>
        \o (IF s.dvd_present THEN <<"dvd_path">> ELSE <<>>)

\* The fields start passes to check_path, in the order it does.
CheckOrder(s) ==
    <<"xqemu_path", "mcpx_path", "flash_path", "hdd_path">>
        \o (IF s.dvd_present THEN <<"dvd_path">> ELSE <<>>)

\* The path of the first check_path call that raises, <<>> if none does.
FirstMissing(s) ==
    LET order == CheckOrder(s)
        bad   == {i \in 1..Len(order) : ~check_path(s[order[i]])}
    IN  IF bad = {} THEN <<>>
        ELSE s[order[CHOOSE i \in bad : \A j \in bad : i <= j]]

short_anim_arg(s) == IF s.short_anim THEN <<",short_animation">> ELSE <<>>

dvd_path_arg(s) == IF s.dvd_present THEN <<",file=">> \o s.dvd_path ELSE <<>>

\* The whitespace where the string literal continues on the next line.
WS == <<SP, SP>>

\* The command string, after % locals().
cmd(s) ==
    s.xqemu_path \o WS
      \o <<"-cpu", SP, "pentium3">> \o WS
      \o <<"-machine", SP, "xbox,bootrom=">> \o s.mcpx_path \o short_anim_arg(s)
      \o <<SP, "-m", SP, "64">> \o WS
      \o <<"-bios", SP>> \o s.flash_path \o WS
      \o <<"-net", SP, "nic,model=nvnet", SP, "-net", SP, "user">> \o WS
      \o <<"-monitor", SP, "stdio">> \o WS
      \o <<"-drive", SP, "file=">> \o s.hdd_path \o <<",index=0,media=disk">> \o WS
      \o <<"-drive", SP, "index=1,media=cdrom">> \o dvd_path_arg(s)

RECURSIVE SplitFrom(_, _, _, _)
SplitFrom(str, i, word, words) ==
    IF i > Len(str)
    THEN IF word = <<>> THEN words ELSE Append(words, word)
    ELSE IF str[i] = SP
         THEN SplitFrom(str, i + 1, <<>>,
                        IF word = <<>> THEN words ELSE Append(words, word))
         ELSE SplitFrom(str, i + 1, Append(word, str[i]), words)

\* str.split(): the maximal runs of non-whitespace, in order.
split(str) == SplitFrom(str, 1, <<>>, <<>>)

\* subprocess.Popen(argv): the executable argv[0] is found and run, or the
\* call raises (no such file, a directory, not executable).
Popen(argv) ==
    IF FileKind(argv[1]) = "file" THEN {"ok", "spawn_error"} ELSE {"spawn_error"}

\* Xqemu.start(settings)
start ==
    LET missing == FirstMissing(settings)
        argv    == split(cmd(settings))
    IN  IF missing # <<>>
        THEN /\ out' = Outcome("missing", missing, <<>>)
             /\ UNCHANGED <<_p, procs>>
        ELSE \E r \in Popen(argv) :
                /\ out' = Outcome(r, <<>>, argv)
                /\ IF r = "ok"
                   THEN /\ procs' = Append(procs, "running")
                        /\ _p' = Len(procs) + 1
                   ELSE UNCHANGED <<_p, procs>>

stop_KeepsHandle ==
    /\ out' = Returned
    /\ IF _p # None
       THEN procs' = [procs EXCEPT ![_p] = "terminated"] /\ UNCHANGED _p
       ELSE UNCHANGED <<_p, procs>>

\* Xqemu.stop
stop ==
    /\ out' = Returned
    /\ IF _p # None
       THEN procs' = [procs EXCEPT ![_p] = "terminated"] /\ _p' = None
       ELSE UNCHANGED <<_p, procs>>

----------------------------------------------------------------------------
(* The controller driven directly: any sequence of start and stop calls,    *)
(* with any configuration.                                                  *)

InitCommon ==
    /\ _p = None
    /\ procs = <<>>
    /\ runButton = "Start"
    /\ dialog = FALSE
    /\ app = "running"
    /\ edits = 0
    /\ started = FALSE
    /\ rt = 0
    /\ last = Call("init")
    /\ out = Returned

InitCtl ==
    /\ settings \in Configurations
    /\ file = Absent
    /\ InitCommon

CtlStart ==
    /\ Len(procs) < MaxSpawns
    /\ last' = Call("start")
    /\ start
    /\ started' = (started \/ out'.result = "ok")
    /\ UNCHANGED <<settings, file, runButton, dialog, app, edits, rt>>

CtlStop ==
    /\ last' = Call("stop")
    /\ stop
    /\ started' = FALSE
    /\ UNCHANGED <<settings, file, runButton, dialog, app, edits, rt>>

\* The caller changes one field of the configuration it passes to start.
CtlConfigure ==
    /\ \E k \in PathKeys \cup FlagKeys : \E v \in Values(k) :
          /\ v # settings[k]
          /\ setAttr(k, v)
    /\ last' = Call("configure")
    /\ out' = Returned
    /\ UNCHANGED <<file, _p, procs, runButton, dialog, app, edits, started, rt>>

NextCtl == CtlStart \/ CtlStop \/ CtlConfigure

SpecCtl == InitCtl /\ [][NextCtl]_vars

----------------------------------------------------------------------------
(* The configuration store driven directly.                                 *)

DocAllFiles ==
    [Defaults EXCEPT !.xqemu_path = F, !.mcpx_path = F, !.flash_path = F,
                     !.hdd_path = F, !.dvd_present = FALSE]

DocWhitespace ==
    [Defaults EXCEPT !.xqemu_path = F, !.mcpx_path = W, !.flash_path = F,
                     !.hdd_path = W, !.dvd_path = W, !.hdd_locked = FALSE,
                     !.short_anim = TRUE]

\* Settings files found at startup.
InitialDocuments == {JsonDumps(DocAllFiles), JsonDumps(DocWhitespace)}

InitStore ==
    /\ settings = Defaults
    /\ file \in {Absent, Present(Malformed)} \cup {Present(d) : d \in InitialDocuments}
    /\ InitCommon

StoreReset ==
    /\ last' = Call("reset")
    /\ reset
    /\ rt' = 1
    /\ UNCHANGED <<_p, procs, runButton, dialog, app, edits, started>>

StoreSave ==
    /\ last' = Call("save")
    /\ save
    /\ rt' = IF rt = 1 /\ out'.result = "ok" THEN 2 ELSE 0
    /\ UNCHANGED <<_p, procs, runButton, dialog, app, edits, started>>

StoreLoad ==
    /\ last' = Call("load")
    /\ load
    /\ rt' = IF rt = 2 /\ out'.result = "ok" THEN 3 ELSE 0
    /\ UNCHANGED <<_p, procs, runButton, dialog, app, edits, started>>

\* A widget of the settings form changes one field.
FormEdit ==
    /\ app = "running"
    /\ edits < MaxEdits
    /\ \E k \in PathKeys \cup FlagKeys : \E v \in Values(k) :
          /\ v # settings[k]
          /\ setAttr(k, v)
    /\ edits' = edits + 1
    /\ last' = Call("edit")
    /\ out' = Returned
    /\ rt' = 0
    /\ UNCHANGED <<file, _p, procs, runButton, dialog, app, started>>

NextStore == StoreReset \/ StoreSave \/ StoreLoad \/ FormEdit

SpecStore == InitStore /\ [][NextStore]_vars

----------------------------------------------------------------------------
(* The main window: the application as the user drives it.                  *)

\* MainWindow.__init__: the store is constructed and loaded, the controller
\* is idle and the button reads 'Start'.
Init ==
    /\ file \in {Absent} \cup {Present(d) : d \in InitialDocuments}
    /\ settings = IF file.exists THEN JsonLoads(file.doc) ELSE Defaults
    /\ InitCommon

\* The main window takes input: the application runs and no modal dialog is up.
Idle == app = "running" /\ ~dialog

onRunButtonClicked_StopInFinally ==
    /\ Idle
    /\ IF ~isRunning
       THEN /\ Len(procs) < MaxSpawns
            /\ last' = Call("start")
            /\ start
            /\ started' = (started \/ out'.result = "ok")
            /\ runButton' = "Stop"
       ELSE /\ last' = Call("stop")
            /\ stop
            /\ started' = FALSE
            /\ runButton' = "Start"
    /\ UNCHANGED <<settings, file, dialog, app, edits, rt>>

\* MainWindow.onRunButtonClicked
onRunButtonClicked ==
    /\ Idle
    /\ IF ~isRunning
       THEN /\ Len(procs) < MaxSpawns
            /\ last' = Call("start")
            /\ start
            /\ started' = (started \/ out'.result = "ok")
            /\ runButton' = IF out'.result = "ok" THEN "Stop" ELSE runButton
       ELSE /\ last' = Call("stop")
            /\ stop
            /\ started' = FALSE
            /\ runButton' = "Start"
    /\ UNCHANGED <<settings, file, dialog, app, edits, rt>>

\* MainWindow.onSettingsClicked, up to s.exec_(): the form is shown modally
\* and FormEdit steps run until it is closed.
onSettingsClicked ==
    /\ Idle
    /\ dialog' = TRUE
    /\ last' = Call("settings")
    /\ out' = Returned
    /\ UNCHANGED <<settings, file, _p, procs, runButton, app, edits, started, rt>>

\* MainWindow.onSettingsClicked, from the return of s.exec_(): the store is
\* saved; an exception of save leaves the slot and either is reported by the
\* event loop or aborts the application, as the PyQt5 build does.
SettingsClosed ==
    /\ app = "running" /\ dialog
    /\ dialog' = FALSE
    /\ last' = Call("save")
    /\ save
    /\ IF out'.result = "ok"
       THEN app' = app
       ELSE app' \in {"running", "crashed"}
    /\ UNCHANGED <<_p, procs, runButton, edits, started, rt>>

onExitClicked_NoStop ==
    /\ Idle
    /\ last' = Call("exit")
    /\ out' = Returned
    /\ app' = "exited"
    /\ UNCHANGED <<settings, file, _p, procs, runButton, dialog, edits, started, rt>>

\* MainWindow.onExitClicked
onExitClicked ==
    /\ Idle
    /\ last' = Call("exit")
    /\ stop
    /\ app' = "exited"
    /\ started' = FALSE
    /\ UNCHANGED <<settings, file, runButton, dialog, edits, rt>>

\* The main window is closed by the window manager: app.exec_() returns and
\* main() exits; no handler of MainWindow runs.
WindowClosed ==
    /\ Idle
    /\ last' = Call("close")
    /\ out' = Returned
    /\ app' = "closed"
    /\ UNCHANGED <<settings, file, _p, procs, runButton, dialog, edits, started, rt>>

\* A widget changes while the settings form is up.
DialogEdit == dialog /\ FormEdit

Next ==
    \/ onRunButtonClicked
    \/ onSettingsClicked
    \/ DialogEdit
    \/ SettingsClosed
    \/ onExitClicked
    \/ WindowClosed

Spec == Init /\ [][Next]_vars

----------------------------------------------------------------------------
(* Properties *)

Invalid(path) == FileKind(path) \in {"none", "dir"}

AlwaysRequired == {"xqemu_path", "mcpx_path", "flash_path", "hdd_path"}

Required(s) == AlwaysRequired \cup (IF s.dvd_present THEN {"dvd_path"} ELSE {})

Unterminated == {i \in 1..Len(procs) : procs[i] = "running"}

\* C1: under any sequence of start and stop calls, isRunning is true right
\* after a start that returns, false right after a stop, and true exactly
\* when a start has succeeded with no stop since.
C1_IsRunningTracksStartStop ==
    /\ (last.op = "start" /\ out.result = "ok") => isRunning
    /\ last.op = "stop" => ~isRunning
    /\ isRunning <=> started

C1_StoppedAfterRestart ==
    /\ last.op = "stop"
    /\ last.before # None
    /\ Len(procs) = 2

\* C2: a start with a required path that does not exist or is a directory
\* raises the missing-path error, spawns nothing and leaves the handle, and
\* so isRunning, as it was.
C2_InvalidPathAbortsStart ==
    (last.op = "start" /\ \E k \in Required(settings) : Invalid(settings[k]))
        => /\ out.result = "missing"
           /\ Len(procs) = last.nprocs
           /\ _p = last.before

C2_DirectoryRejectedWhileActive ==
    /\ last.op = "start"
    /\ FileKind(settings.xqemu_path) = "dir"
    /\ last.before # None
    /\ out.result = "missing"

\* C3: with dvd_present false and the four always-required paths valid, start
\* raises no missing-path error whatever dvd_path is, and goes on to Popen.
C3_DvdPathUncheckedWhenAbsent ==
    ( /\ last.op = "start"
      /\ ~settings.dvd_present
      /\ \A k \in AlwaysRequired : ~Invalid(settings[k]) )
        => /\ out.result \in {"ok", "spawn_error"}
           /\ out.argv # <<>>

C3_SpawnedWithDirectoryDvdPath ==
    /\ last.op = "start"
    /\ ~settings.dvd_present
    /\ FileKind(settings.dvd_path) = "dir"
    /\ out.result = "ok"

\* C4: a start issued while a handle is retained spawns no process, so at
\* most one spawned process has not been sent a termination request.
C4_StartWhileActiveRejected ==
    /\ (last.op = "start" /\ last.before # None) => Len(procs) = last.nprocs
    /\ Cardinality(Unterminated) <= 1

\* C5: when the exit action has ended the application, every process spawned
\* in the session has been sent a termination request and the controller is
\* idle.
C5_ExitStopsChild ==
    app = "exited" => (Unterminated = {} /\ ~isRunning)

C5_ExitedWhileActive ==
    /\ app = "exited"
    /\ last.op = "exit"
    /\ last.before # None
    /\ edits > 0

\* C6: reset(), save(), load() in a row leave a record equal, field for
\* field, to the defaults reset() produces.
C6_DefaultsRoundTrip ==
    rt = 3 => settings = Defaults

C6_RoundTripAfterEdits ==
    /\ rt = 3
    /\ edits > 0
    /\ file = Present(JsonDumps(Defaults))

\* C7: load() with no settings file leaves the record equal to the defaults,
\* whatever it held before, and creates no file.
C7_LoadMissingFileResets ==
    (last.op = "load" /\ ~last.existed)
        => /\ settings = Defaults
           /\ file = Absent
           /\ out.result = "ok"

C7_LoadedOverEditedRecord ==
    /\ last.op = "load"
    /\ ~last.existed
    /\ ~last.defaults

\* The argument vector section 6 of the specification describes.
ExpectedArgv(s) ==
    << s.xqemu_path,
       <<"-cpu">>, <<"pentium3">>,
       <<"-machine">>,
       <<"xbox,bootrom=">> \o s.mcpx_path
           \o (IF s.short_anim THEN <<",short_animation">> ELSE <<>>),
       <<"-m">>, <<"64">>,
       <<"-bios">>, s.flash_path,
       <<"-net">>, <<"nic,model=nvnet">>, <<"-net">>, <<"user">>,
       <<"-monitor">>, <<"stdio">>,
       <<"-drive">>, <<"file=">> \o s.hdd_path \o <<",index=0,media=disk">>,
       <<"-drive">>,
       <<"index=1,media=cdrom">>
           \o (IF s.dvd_present THEN <<",file=">> \o s.dvd_path ELSE <<>>) >>

\* C8: for every configuration that passes the path checks, paths with
\* whitespace included, the process is spawned with xqemu_path as executable
\* and exactly the fixed argument list, each path whole inside one argument.
C8_ArgvAsSpecified ==
    (last.op = "start" /\ out.result \in {"ok", "spawn_error"})
        => out.argv = ExpectedArgv(settings)

\* C9: the missing-path error names the first invalid path in the order
\* xqemu_path, mcpx_path, flash_path, hdd_path, dvd_path (the last only when
\* dvd_present).
C9_FirstInvalidPathNamed ==
    (last.op = "start" /\ out.result = "missing")
        => out.path =
              IF Invalid(settings.xqemu_path) THEN settings.xqemu_path
              ELSE IF Invalid(settings.mcpx_path) THEN settings.mcpx_path
              ELSE IF Invalid(settings.flash_path) THEN settings.flash_path
              ELSE IF Invalid(settings.hdd_path) THEN settings.hdd_path
              ELSE settings.dvd_path

C9_SeveralInvalid ==
    /\ last.op = "start"
    /\ out.result = "missing"
    /\ ~Invalid(settings.xqemu_path)
    /\ ~Invalid(settings.mcpx_path)
    /\ Invalid(settings.flash_path)
    /\ Invalid(settings.hdd_path)
    /\ settings.flash_path # settings.hdd_path

\* C10: in the main window the run button reads 'Stop' exactly when the
\* controller retains a handle; a failing start is caught, leaves the
\* controller idle and the button at 'Start'; start is never called while a
\* handle is retained.  (The exit action is not among the claim's actions:
\* it ends the process from inside the handler.)
C10_ButtonMatchesHandle ==
    app # "exited" =>
        /\ (runButton = "Stop") <=> isRunning
        /\ runButton \in {"Start", "Stop"}
        /\ last.op = "start" => last.before = None
        /\ (last.op = "start" /\ out.result # "ok")
              => (~isRunning /\ runButton = "Start" /\ app = "running")

C10_SpawnFailedAfterEarlierRun ==
    /\ last.op = "start"
    /\ out.result = "spawn_error"
    /\ Len(procs) = 1
    /\ runButton = "Start"

====
